---- MODULE Spec2Model ----
(***************************************************************************)
(* State-machine model of src/train.py (class Trainer): the epoch loop of  *)
(* run(), best-model and init-weights checkpointing, and the load / reset  *)
(* operations.  The model, the optimizer maths, the data loaders and the   *)
(* logger are collaborators: a training pass gives every parameter a value *)
(* it has not held before (the number of the pass), an evaluation pass     *)
(* yields an arbitrary number of correct predictions.                      *)
(*                                                                         *)
(* A state dict is a function from key strings to values.  Parameter keys  *)
(* are "a".."d"; the optimizer's state dict has the two keys "state" and   *)
(* "param_groups" of torch.optim, which are not parameter names of the     *)
(* models considered here.                                                 *)
(***************************************************************************)
EXTENDS Integers, Sequences, FiniteSets, TLC

VARIABLES
    self,     \* the Trainer object: a record of its attributes
    files,    \* the file system: path -> checkpoint record, for existing files
    dirs,     \* the directories that exist
    pc,       \* position of the (single) thread: "idle" or a line of run()
    epoch,    \* run(): the loop variable
    lr,       \* run(): the local lr read back from the optimizer
    test_acc, \* run(): the local test_acc
    events,   \* history: what the current / latest run() has done, in order
    entry,    \* history: the trainer's attributes when the latest run() began
    last,     \* history: the public method called most recently
    loaded,   \* history: load_init_params has been called on this trainer
    trained   \* history: number of training passes begun since __init__

vars == <<self, files, dirs, pc, epoch, lr, test_acc, events, entry, last, loaded,
          trained>>

----------------------------------------------------------------------------
(* Bounds *)

\* config["EPOCHS"] ranges over 1..MaxEpochs
MaxEpochs == 2

\* run() is called only while the epochs it is going to execute keep the
\* number of training passes of this trainer within MaxTrained
MaxTrained == 3

\* values of config["PRUNE_START_FROM"]
PruneStarts == {0, 1}

\* <<number of batches of the train loader, number of samples of the test set>>
LoaderSizes == {<<1, 2>>, <<0, 2>>, <<1, 0>>}

\* the directories the caller passes to __init__ / reset
DirPrefixes == {"out"}
ModelDirs == {"model"}

\* a checkpoint that exists before the trainer is constructed
ExtPath == "pretrained/ext.pth.tar"
ExtEpochs == {0}

----------------------------------------------------------------------------
(* Helpers for paths and dictionaries *)

\* os.path.join
join(a, b) == a \o "/" \o b

\* f"{filename}.pth.tar"
tarname(filename) == filename \o ".pth.tar"

\* dict.update: d with the entries of u written over it
update(d, u) ==
    [k \in DOMAIN d \cup DOMAIN u |-> IF k \in DOMAIN u THEN u[k] ELSE d[k]]

\* {k: v for k, v in d.items() if k in keys}
filter(d, keys) == [k \in DOMAIN d \cap keys |-> d[k]]

\* the file system after writing rec at path
write(fs, path, rec) ==
    [p \in DOMAIN fs \cup {path} |-> IF p = path THEN rec ELSE fs[p]]

max(a, b) == IF a > b THEN a ELSE b

----------------------------------------------------------------------------
(* Collaborators *)

\* optim.SGD(model.parameters(), lr=config["LR"], ...): no momentum buffers
\* yet, learning rate config["LR"]
SGD(config) == [state |-> 0, param_groups |-> <<"LR", 0>>]

\* WarmupCosineLR.__call__(optimizer, epoch): sets the learning rate of the
\* schedule at this epoch
WarmupCosineLR(optimizer, e) == [optimizer EXCEPT !.param_groups = <<"sched", e>>]

\* utils.save_checkpoint(state, path, filename)
save_checkpoint(fs, state, path, filename) == write(fs, join(path, filename), state)

----------------------------------------------------------------------------
(* Trainer methods, as functions of the object s and the file system fs *)

initialize_params_no_filter(s, model, state_dict) ==
    [s EXCEPT !.model = update(s.model, state_dict)]

\* initialize_params(self, model, state_dict): reads and loads self.model,
\* whatever object is passed as `model`
initialize_params(s, model, state_dict) ==
    LET model_dict == s.model
        pretrained_dict == filter(state_dict, DOMAIN model_dict)
    IN  [s EXCEPT !.model = update(model_dict, pretrained_dict)]

load_params_keep_epoch(s, fs, model_path) ==
    LET checkpt == fs[model_path]
        s1 == initialize_params(s, s.model, checkpt.state_dict)
        s2 == initialize_params(s1, s1.optimizer, checkpt.optimizer)
    IN  [s2 EXCEPT !.start_epoch = checkpt.epoch]

load_params_restore_best(s, fs, model_path) ==
    LET checkpt == fs[model_path]
        s1 == initialize_params(s, s.model, checkpt.state_dict)
        s2 == initialize_params(s1, s1.optimizer, checkpt.optimizer)
    IN  [s2 EXCEPT !.start_epoch = checkpt.epoch + 1, !.best_acc = checkpt.test_acc]

load_params(s, fs, model_path) ==
    LET checkpt == fs[model_path]
        s1 == initialize_params(s, s.model, checkpt.state_dict)
        s2 == initialize_params(s1, s1.optimizer, checkpt.optimizer)
    IN  [s2 EXCEPT !.start_epoch = checkpt.epoch + 1]

load_init_params_no_override(s, fs, init_params_path) ==
    load_params(s, fs, init_params_path)

load_init_params(s, fs, init_params_path) ==
    [load_params(s, fs, init_params_path)
        EXCEPT !.start_epoch = s.config.PRUNE_START_FROM]

save_params(s, fs, model_path, filename, e, acc) ==
    save_checkpoint(
        fs,
        [state_dict |-> s.model, optimizer |-> s.optimizer,
         epoch |-> e, test_acc |-> acc],
        model_path,
        tarname(filename))

save_best_params_ge(s, fs, acc, e) ==
    LET is_best == acc >= s.best_acc
    IN  [self |-> [s EXCEPT !.best_acc = max(acc, s.best_acc)],
         files |-> IF is_best
                   THEN save_params(s, fs, s.best_model_path, ToString(e), e, acc)
                   ELSE fs]

save_best_params_no_max(s, fs, acc, e) ==
    LET is_best == acc > s.best_acc
    IN  [self |-> [s EXCEPT !.best_acc = acc],
         files |-> IF is_best
                   THEN save_params(s, fs, s.best_model_path, ToString(e), e, acc)
                   ELSE fs]

save_best_params(s, fs, acc, e) ==
    LET is_best == acc > s.best_acc
    IN  [self |-> [s EXCEPT !.best_acc = max(acc, s.best_acc)],
         files |-> IF is_best
                   THEN save_params(s, fs, s.best_model_path, ToString(e), e, acc)
                   ELSE fs]

save_init_params_wrong_tag(s, fs) ==
    LET filename == "init_weight"
    IN  [self |-> [s EXCEPT !.init_params_path =
                                join(s.dir_prefix, tarname(filename))],
         files |-> save_params(s, fs, s.dir_prefix, filename,
                               s.config.STORE_PARAM_BEFORE, 0)]

save_init_params(s, fs) ==
    LET filename == "init_weight"
    IN  [self |-> [s EXCEPT !.init_params_path =
                                join(s.dir_prefix, tarname(filename))],
         files |-> save_params(s, fs, s.dir_prefix, filename,
                               s.config.STORE_PARAM_BEFORE - 1, 0)]

reset_keep_best(s, fs, dir_prefix, model_dir) ==
    LET s1 == [s EXCEPT !.dir_prefix = dir_prefix,
                        !.model_dir = model_dir,
                        !.start_epoch = 0,
                        !.optimizer = SGD(s.config)]
        s2 == IF s1.init_params_path # ""
              THEN load_init_params(s1, fs, s1.init_params_path)
              ELSE s1
    IN  [s2 EXCEPT !.best_model_path = join(dir_prefix, model_dir)]

reset_no_reload(s, fs, dir_prefix, model_dir) ==
    [s EXCEPT !.dir_prefix = dir_prefix,
              !.model_dir = model_dir,
              !.start_epoch = 0,
              !.best_acc = 0,
              !.optimizer = SGD(s.config),
              !.best_model_path = join(dir_prefix, model_dir)]

reset_clear_path(s, fs, dir_prefix, model_dir) ==
    LET s1 == [s EXCEPT !.dir_prefix = dir_prefix,
                        !.model_dir = model_dir,
                        !.start_epoch = 0,
                        !.best_acc = 0,
                        !.optimizer = SGD(s.config)]
        s2 == IF s1.init_params_path # ""
              THEN load_init_params(s1, fs, s1.init_params_path)
              ELSE s1
    IN  [s2 EXCEPT !.best_model_path = join(dir_prefix, model_dir),
                   !.init_params_path = ""]

reset(s, fs, dir_prefix, model_dir) ==
    LET s1 == [s EXCEPT !.dir_prefix = dir_prefix,
                        !.model_dir = model_dir,
                        !.start_epoch = 0,
                        !.best_acc = 0,
                        !.optimizer = SGD(s.config)]
        s2 == IF s1.init_params_path # ""
              THEN load_init_params(s1, fs, s1.init_params_path)
              ELSE s1
    IN  [s2 EXCEPT !.best_model_path = join(dir_prefix, model_dir)]

\* run(), line 86 and line 105-108: the two conditions under which the
\* init weights are stored
store_before_loop(s) ==
    s.init_params_path = "" /\ s.config.STORE_PARAM_BEFORE = 0

store_after_epoch_off_by_one(s, e) ==
    s.init_params_path = "" /\ s.config.STORE_PARAM_BEFORE = e

store_after_epoch_every(s, e) ==
    e < s.config.STORE_PARAM_BEFORE

store_after_epoch_unguarded(s, e) ==
    s.config.STORE_PARAM_BEFORE - 1 = e

store_after_epoch(s, e) ==
    s.init_params_path = "" /\ s.config.STORE_PARAM_BEFORE - 1 = e

in_range_inclusive(s, e) == e <= s.config.EPOCHS

\* range(start_epoch, EPOCHS): is e an element
in_range(s, e) == e < s.config.EPOCHS

no_batches_never(s) == FALSE

\* train_one_epoch, line 134: len(losses) is 0 and the division raises
no_batches(s) == s.trainloader = 0

\* test_one_epoch, line 147: total is 0 and the division raises
no_samples(s) == s.testloader = 0

after_test_first(label) ==
    CASE label = "sched" -> "test"
      [] label = "test" -> "train"
      [] label = "train" -> "save_best"
      [] label = "save_best" -> "store_init"
      [] label = "store_init" -> "log"

\* the statement of run()'s loop body that follows the statement at label
after(label) ==
    CASE label = "sched" -> "train"
      [] label = "train" -> "test"
      [] label = "test" -> "save_best"
      [] label = "save_best" -> "store_init"
      [] label = "store_init" -> "log"

----------------------------------------------------------------------------
(* Initial states: the trainer right after __init__ *)

Configs ==
    [EPOCHS : 1 .. MaxEpochs,
     STORE_PARAM_BEFORE : 0 .. MaxEpochs + 1,
     PRUNE_START_FROM : PruneStarts]

NoCall == [op |-> "none", path |-> "", raised |-> FALSE]
NoEntry == [start_epoch |-> 0, best_acc |-> 0, init_params_path |-> "", prev |-> NoCall]

\* __init__: the attributes set from the arguments, then reset(...)
new(model, trainloader, testloader, config, dir_prefix, model_dir, wandb_log) ==
    reset([model |-> model,
           trainloader |-> trainloader,
           testloader |-> testloader,
           config |-> config,
           wandb_log |-> wandb_log,
           init_params_path |-> "",
           dir_prefix |-> dir_prefix,
           model_dir |-> model_dir,
           start_epoch |-> 0,
           best_acc |-> 0,
           optimizer |-> SGD(config),
           best_model_path |-> join(dir_prefix, model_dir)],
          <<>>, dir_prefix, model_dir)

InitFrom(keysets, extdicts, configs, sizes, logs) ==
    /\ \E M \in keysets, c \in configs, sz \in sizes,
          dp \in DirPrefixes, md \in ModelDirs, wl \in logs :
          /\ self = new([k \in M |-> 0], sz[1], sz[2], c, dp, md, wl)
          /\ dirs = {dp, join(dp, md)}
    /\ \E sd \in extdicts, e \in ExtEpochs :
              files = [p \in {ExtPath} |->
                          [state_dict |-> sd,
                           optimizer |-> [state |-> 1, param_groups |-> <<"sched", e>>],
                           epoch |-> e,
                           test_acc |-> 50]]
    /\ pc = "idle"
    /\ epoch = 0
    /\ lr = <<"LR", 0>>
    /\ test_acc = 0
    /\ events = <<>>
    /\ entry = NoEntry
    /\ last = NoCall
    /\ loaded = FALSE
    /\ trained = 0

\* the life of a trainer whose model has the one parameter "b"
Init ==
    InitFrom({{"b"}}, {[k \in {"b"} |-> -1]}, Configs, LoaderSizes, BOOLEAN)

\* loading between models of different structure, under one configuration
LoadKeySets == {{"b", "c", "d"}, {"b", "d"}, {"d"}}
LoadDicts ==
    {[a |-> -1, b |-> -2, c |-> -3], [a |-> -1, b |-> -1], [a |-> -2, b |-> -1],
     [b |-> -2], [a |-> -1]}
LoadConfigs ==
    {c \in Configs : c.EPOCHS = 1 /\ c.STORE_PARAM_BEFORE = 1}

InitLoad ==
    InitFrom(LoadKeySets, LoadDicts, LoadConfigs, {<<1, 2>>}, {FALSE})

----------------------------------------------------------------------------
(* Public methods called while no run() is in progress *)

Reset(dp, md) ==
    /\ pc = "idle"
    /\ self' = reset(self, files, dp, md)
    /\ dirs' = dirs \cup {join(dp, md)}
    /\ last' = [op |-> "reset", path |-> "", raised |-> FALSE]
    /\ loaded' = (loaded \/ self.init_params_path # "")
    /\ events' = <<>>
    /\ entry' = NoEntry
    /\ UNCHANGED <<files, pc, epoch, lr, test_acc, trained>>

LoadParams(p) ==
    /\ pc = "idle"
    /\ p \in DOMAIN files
    /\ self' = load_params(self, files, p)
    /\ last' = [op |-> "load_params", path |-> p, raised |-> FALSE]
    /\ events' = <<>>
    /\ entry' = NoEntry
    /\ UNCHANGED <<files, dirs, pc, epoch, lr, test_acc, loaded, trained>>

LoadInitParams(p) ==
    /\ pc = "idle"
    /\ p \in DOMAIN files
    /\ self' = load_init_params(self, files, p)
    /\ last' = [op |-> "load_init_params", path |-> p, raised |-> FALSE]
    /\ loaded' = TRUE
    /\ events' = <<>>
    /\ entry' = NoEntry
    /\ UNCHANGED <<files, dirs, pc, epoch, lr, test_acc, trained>>

----------------------------------------------------------------------------
(* run(), one action per statement of the loop body *)

Event(type, e, acc) == [type |-> type, epoch |-> e, acc |-> acc]

\* leave run(): by return or by an exception
Leave(raised) ==
    /\ pc' = "idle"
    /\ epoch' = 0
    /\ lr' = <<"LR", 0>>
    /\ test_acc' = 0
    /\ last' = [op |-> "run", path |-> "", raised |-> raised]

\* the for statement takes e as the next element, or the loop is over
For(s, e) ==
    IF in_range(s, e)
    THEN /\ pc' = "sched"
         /\ epoch' = e
         /\ last' = [op |-> "run", path |-> "", raised |-> FALSE]
         /\ UNCHANGED <<lr, test_acc>>
    ELSE Leave(FALSE)

\* lines 86-89
Run ==
    /\ pc = "idle"
    /\ trained + max(0, self.config.EPOCHS - self.start_epoch) <= MaxTrained
    /\ entry' = [start_epoch |-> self.start_epoch, best_acc |-> self.best_acc,
                 init_params_path |-> self.init_params_path, prev |-> last]
    /\ IF store_before_loop(self)
       THEN LET r == save_init_params(self, files)
            IN  /\ self' = r.self
                /\ files' = r.files
                /\ events' = <<Event("init", self.config.STORE_PARAM_BEFORE - 1, 0)>>
       ELSE /\ events' = <<>>
            /\ UNCHANGED <<self, files>>
    /\ For(self, self.start_epoch)
    /\ UNCHANGED <<dirs, loaded, trained>>

\* lines 90-92
Schedule ==
    /\ pc = "sched"
    /\ self' = [self EXCEPT !.optimizer = WarmupCosineLR(self.optimizer, epoch)]
    /\ lr' = self'.optimizer.param_groups
    /\ events' = Append(events, Event("sched", epoch, 0))
    /\ pc' = after("sched")
    /\ UNCHANGED <<files, dirs, epoch, test_acc, entry, last, loaded, trained>>

\* line 95, train_one_epoch: with no batch, sum(losses) / len(losses) raises
TrainOneEpoch ==
    /\ pc = "train"
    /\ IF no_batches(self)
       THEN /\ Leave(TRUE)
            /\ UNCHANGED <<self, events>>
       ELSE /\ self' = [self EXCEPT !.model = [k \in DOMAIN self.model |-> trained + 1],
                                     !.optimizer.state = 1]
            /\ events' = Append(events, Event("train", epoch, 0))
            /\ pc' = after("train")
            /\ UNCHANGED <<epoch, lr, test_acc, last>>
    /\ trained' = trained + 1
    /\ UNCHANGED <<files, dirs, entry, loaded>>

\* line 98, test_one_epoch: 100.0 * correct / total raises when total is 0
TestOneEpoch ==
    /\ pc = "test"
    /\ IF no_samples(self)
       THEN /\ Leave(TRUE)
            /\ UNCHANGED events
       ELSE /\ \E correct \in 0 .. self.testloader :
                  LET acc == (100 * correct) \div self.testloader
                  IN  /\ test_acc' = acc
                      /\ events' = Append(events, Event("test", epoch, acc))
            /\ pc' = after("test")
            /\ UNCHANGED <<epoch, lr, last>>
    /\ UNCHANGED <<self, files, dirs, entry, loaded, trained>>

\* line 102
SaveBest ==
    /\ pc = "save_best"
    /\ LET r == save_best_params(self, files, test_acc, epoch)
       IN  /\ self' = r.self
           /\ files' = r.files
           /\ events' = IF r.files # files
                        THEN Append(events, Event("best", epoch, test_acc))
                        ELSE events
    /\ pc' = after("save_best")
    /\ UNCHANGED <<dirs, epoch, lr, test_acc, entry, last, loaded, trained>>

\* lines 105-109
StoreInit ==
    /\ pc = "store_init"
    /\ IF store_after_epoch(self, epoch)
       THEN LET r == save_init_params(self, files)
            IN  /\ self' = r.self
                /\ files' = r.files
                /\ events' = Append(events,
                                 Event("init", self.config.STORE_PARAM_BEFORE - 1, 0))
       ELSE UNCHANGED <<self, files, events>>
    /\ pc' = after("store_init")
    /\ UNCHANGED <<dirs, epoch, lr, test_acc, entry, last, loaded, trained>>

\* lines 112-115, then the for statement again
Log ==
    /\ pc = "log"
    /\ events' = IF self.wandb_log
                 THEN Append(events, Event("log", epoch, test_acc))
                 ELSE events
    /\ For(self, epoch + 1)
    /\ UNCHANGED <<self, files, dirs, entry, loaded, trained>>

----------------------------------------------------------------------------

Next ==
    \/ \E dp \in DirPrefixes, md \in ModelDirs : Reset(dp, md)
    \/ \E p \in DOMAIN files : LoadParams(p)
    \/ \E p \in DOMAIN files : LoadInitParams(p)
    \/ Run
    \/ Schedule
    \/ TrainOneEpoch
    \/ TestOneEpoch
    \/ SaveBest
    \/ StoreInit
    \/ Log

Spec == Init /\ [][Next]_vars

SpecLoad == InitLoad /\ [][Next]_vars

\* run() is sequential code: a call that has started takes its next step
RunStep == Schedule \/ TrainOneEpoch \/ TestOneEpoch \/ SaveBest \/ StoreInit \/ Log

SpecFair == Init /\ [][Next]_vars /\ WF_vars(RunStep)

----------------------------------------------------------------------------
(* What the latest run() has done, read from the history *)

IsTest(ev) == ev.type = "test"
IsSched(ev) == ev.type = "sched"
IsInit(ev) == ev.type = "init"

\* number of init-weights checkpoints written by the current / latest run()
InitWrites == Len(SelectSeq(events, IsInit))

\* the epochs begun by the current / latest run(), in order
Executed == SelectSeq(events, IsSched)

\* the evaluation passes completed by the current / latest run(), in order
Tests == SelectSeq(events, IsTest)

\* run() was the last call and it has returned normally
RunReturned == pc = "idle" /\ last.op = "run" /\ ~last.raised

\* the best accuracy recorded before the i-th event of this run
BestBefore(i) ==
    LET earlier == {events[j].acc : j \in {j \in 1 .. i - 1 : IsTest(events[j])}}
    IN  CHOOSE m \in earlier \cup {entry.best_acc} :
            \A x \in earlier \cup {entry.best_acc} : x <= m

\* this run wrote a best-model checkpoint for epoch e
BestWritten(e) ==
    \E j \in 1 .. Len(events) : events[j].type = "best" /\ events[j].epoch = e

\* the save_best_params call for the i-th event (an evaluation) has returned
Decided(i) == i < Len(events) \/ pc # "save_best"

BestPath(e) == join(self.best_model_path, tarname(ToString(e)))

----------------------------------------------------------------------------
(* C1: during run(), the best-model checkpoint named by epoch e is written *)
(* if and only if the test accuracy of epoch e is strictly greater than    *)
(* the best accuracy recorded before that epoch; a tie (also 0 against the *)
(* initial 0) writes nothing.  A checkpoint written holds epoch e and its  *)
(* accuracy.                                                               *)
C1_BestWrittenIffStrictlyBetter ==
    \A i \in 1 .. Len(events) :
        (IsTest(events[i]) /\ Decided(i)) =>
            LET e == events[i].epoch
                acc == events[i].acc
            IN  /\ BestWritten(e) <=> acc > BestBefore(i)
                /\ BestWritten(e) =>
                       /\ BestPath(e) \in DOMAIN files
                       /\ files[BestPath(e)].epoch = e
                       /\ files[BestPath(e)].test_acc = acc

\* a run that has returned after a tie that wrote nothing (0 against 0 or a
\* repeated accuracy) and after a strictly better epoch that wrote
C1_Witness ==
    /\ RunReturned
    /\ \E i, j \in 1 .. Len(events) :
          /\ IsTest(events[i]) /\ events[i].acc = BestBefore(i)
          /\ ~BestWritten(events[i].epoch)
          /\ IsTest(events[j]) /\ events[j].acc > BestBefore(j)
          /\ BestWritten(events[j].epoch)

(* C2: after a run() that started with best_acc = 0 and executed at least  *)
(* one epoch, best_acc is the maximum test accuracy observed in the run.   *)
C2_BestAccIsMax ==
    (RunReturned /\ entry.best_acc = 0 /\ Len(Tests) >= 1) =>
        /\ \E i \in 1 .. Len(Tests) : self.best_acc = Tests[i].acc
        /\ \A i \in 1 .. Len(Tests) : self.best_acc >= Tests[i].acc

\* such a run whose last epoch was worse than an earlier one
C2_Witness ==
    /\ RunReturned /\ entry.best_acc = 0 /\ Len(Tests) >= 2
    /\ Tests[Len(Tests)].acc < Tests[1].acc
    /\ self.best_acc = Tests[1].acc

(* C3: after load_params(path) the optimizer's state is the optimizer      *)
(* state stored in the checkpoint at path.                                 *)
C3_OptimizerRestored ==
    (pc = "idle" /\ last.op = "load_params") =>
        self.optimizer = files[last.path].optimizer

(* C4, as claimed: every run() that completes has written exactly one      *)
(* init-weights checkpoint.                                                *)
C4_ExactlyOneInitWrite ==
    RunReturned => InitWrites = 1

\* the init-weights checkpoint is due in a run that begins with no recorded
\* path and either stores before the loop or executes epoch
\* STORE_PARAM_BEFORE - 1
InitDue ==
    /\ entry.init_params_path = ""
    /\ \/ self.config.STORE_PARAM_BEFORE = 0
       \/ /\ entry.start_epoch <= self.config.STORE_PARAM_BEFORE - 1
          /\ self.config.STORE_PARAM_BEFORE - 1 < self.config.EPOCHS

\* the i-th event, an init-weights write, is at the configured place
InitTimely(i) ==
    IF self.config.STORE_PARAM_BEFORE = 0
    THEN i = 1
    ELSE /\ i > 1
         /\ events[i - 1].type \in {"test", "best"}
         /\ events[i - 1].epoch = self.config.STORE_PARAM_BEFORE - 1
         /\ i < Len(events) =>
                \/ events[i + 1].type = "log"
                   /\ events[i + 1].epoch = self.config.STORE_PARAM_BEFORE - 1
                \/ events[i + 1].type = "sched"
                   /\ events[i + 1].epoch = self.config.STORE_PARAM_BEFORE

(* C4, amended: a run() that completes has written the init-weights        *)
(* checkpoint exactly once if it began with no recorded init-params path   *)
(* and either STORE_PARAM_BEFORE = 0 or                                    *)
(* start_epoch <= STORE_PARAM_BEFORE - 1 < EPOCHS, and not at all          *)
(* otherwise; a write is before the first epoch when STORE_PARAM_BEFORE = 0*)
(* and otherwise right after the evaluation and best-checkpoint decision of*)
(* epoch STORE_PARAM_BEFORE - 1.                                           *)
C4_InitWrittenWhenDue ==
    RunReturned =>
        /\ InitWrites = IF InitDue THEN 1 ELSE 0
        /\ \A i \in 1 .. Len(events) : IsInit(events[i]) => InitTimely(i)

\* a completed run that stored the init weights after an epoch, with a
\* further epoch after it
C4_Witness ==
    /\ RunReturned
    /\ self.config.STORE_PARAM_BEFORE >= 1
    /\ \E i \in 2 .. Len(events) - 1 : IsInit(events[i])

(* C5: at most one init-weights checkpoint is written per run(): in every  *)
(* state of a run, and after it, the run has written it at most once.      *)
C5_AtMostOneInitWrite ==
    InitWrites <= 1

\* a completed run with STORE_PARAM_BEFORE 0 or 1 that stored the init
\* weights and executed every epoch
C5_Witness ==
    /\ RunReturned
    /\ self.config.STORE_PARAM_BEFORE \in {0, 1}
    /\ InitWrites = 1
    /\ Len(Executed) = self.config.EPOCHS
    /\ self.config.EPOCHS >= 2

(* C6: the run() that follows load_params of a checkpoint with stored      *)
(* epoch s executes epoch s + 1 first and no epoch <= s; when              *)
(* s + 1 >= EPOCHS it executes no epoch.                                   *)
C6_ResumeAfterSavedEpoch ==
    (last.op = "run" /\ entry.prev.op = "load_params") =>
        LET s == files[entry.prev.path].epoch
        IN  /\ \A i \in 1 .. Len(Executed) : Executed[i].epoch > s
            /\ Len(Executed) >= 1 => Executed[1].epoch = s + 1
            /\ pc # "idle" => epoch >= s + 1
            /\ (RunReturned /\ s + 1 < self.config.EPOCHS) => Len(Executed) >= 1
            /\ s + 1 >= self.config.EPOCHS => Len(Executed) = 0 /\ pc = "idle"

\* a completed run that resumed from a best-model checkpoint of this trainer
\* and executed the epoch after it
C6_Witness ==
    /\ RunReturned /\ entry.prev.op = "load_params"
    /\ entry.prev.path # ExtPath
    /\ files[entry.prev.path].epoch >= 0
    /\ Len(Executed) >= 1

(* C7: after load_init_params(path) the start epoch is PRUNE_START_FROM,   *)
(* whatever epoch the checkpoint stores.                                   *)
C7_InitLoadStartsAtPruneStart ==
    (pc = "idle" /\ last.op = "load_init_params") =>
        self.start_epoch = self.config.PRUNE_START_FROM

\* load_init_params of a checkpoint whose stored epoch + 1 is another epoch
C7_Witness ==
    /\ pc = "idle" /\ last.op = "load_init_params"
    /\ files[last.path].epoch + 1 # self.config.PRUNE_START_FROM

(* C8: load_params merges the saved parameters into the model: a key of    *)
(* the model that the checkpoint has takes the saved value, a key of the   *)
(* model that the checkpoint lacks keeps its value, a key only the         *)
(* checkpoint has is dropped (the model's key set is unchanged).           *)
C8_PartialLoad ==
    [][(pc = "idle" /\ pc' = "idle" /\ last'.op = "load_params") =>
          LET saved == files[last'.path].state_dict
          IN  /\ DOMAIN self'.model = DOMAIN self.model
              /\ \A k \in DOMAIN self.model :
                     self'.model[k] = IF k \in DOMAIN saved
                                      THEN saved[k]
                                      ELSE self.model[k]]_vars

\* saved {a, b, c} loaded into a trained model {b, c, d}: b and c saved, d as
\* trained
C8_Witness ==
    /\ pc = "idle" /\ last.op = "load_params"
    /\ DOMAIN files[last.path].state_dict = {"a", "b", "c"}
    /\ DOMAIN self.model = {"b", "c", "d"}
    /\ self.model["b"] = files[last.path].state_dict["b"]
    /\ self.model["c"] = files[last.path].state_dict["c"]
    /\ self.model["d"] >= 1

(* C9, as claimed: after reset best_acc is 0 and the start epoch is 0,     *)
(* whether or not an init-params path is recorded.                         *)
C9_ResetZeroes ==
    (pc = "idle" /\ last.op = "reset") =>
        self.best_acc = 0 /\ self.start_epoch = 0

(* C9, amended: after reset best_acc is 0; the start epoch is 0 when no    *)
(* init-params path is recorded and PRUNE_START_FROM when one is.          *)
C9_ResetStart ==
    (pc = "idle" /\ last.op = "reset") =>
        /\ self.best_acc = 0
        /\ self.start_epoch = IF self.init_params_path = ""
                              THEN 0
                              ELSE self.config.PRUNE_START_FROM

\* a reset with a recorded path and PRUNE_START_FROM = 1, after a run that
\* had found a best accuracy above 0
C9_Witness ==
    /\ pc = "idle" /\ last.op = "reset"
    /\ self.init_params_path # ""
    /\ self.config.PRUNE_START_FROM = 1
    /\ \E p \in DOMAIN files : p # ExtPath /\ files[p].test_acc > 0

(* C10, as claimed: once load_init_params has been called on the trainer,  *)
(* a run() writes no init-weights checkpoint.                              *)
C10_NoInitWriteAfterLoad ==
    (last.op = "run" /\ loaded) => InitWrites = 0

(* C10, amended: a run() that begins with an init-params path recorded (as *)
(* after a reset that reloaded the snapshot) writes no init-weights        *)
(* checkpoint, for every STORE_PARAM_BEFORE.                               *)
C10_NoInitWriteOncePathSet ==
    (last.op = "run" /\ entry.init_params_path # "") => InitWrites = 0

\* a completed run after a reset had reloaded the snapshot, which executed
\* epoch STORE_PARAM_BEFORE - 1 again
C10_Witness ==
    /\ RunReturned /\ loaded
    /\ entry.prev.op = "reset"
    /\ entry.init_params_path # ""
    /\ \E i \in 1 .. Len(Executed) :
          Executed[i].epoch = self.config.STORE_PARAM_BEFORE - 1

(* C11: best_acc never decreases across the epochs of one run(): every     *)
(* step of a run leaves best_acc at least what it was.                     *)
C11_BestAccMonotone ==
    [][(pc # "idle" \/ pc' # "idle") => self'.best_acc >= self.best_acc]_vars

\* inside a run, right after save_best_params has seen an accuracy below
\* the best one
C11_Witness ==
    /\ pc = "store_init"
    /\ test_acc < self.best_acc
    /\ entry.best_acc < self.best_acc

(* C12: with a train loader of zero batches or a test set of zero samples  *)
(* the division by zero of the first epoch e begun leaves run() as an      *)
(* exception: the run never completes an evaluation, begins no later       *)
(* epoch, writes no best checkpoint and leaves best_acc as it was before   *)
(* epoch e; a run is left by an exception only in this way.                *)
C12_ZeroDivisionPropagates ==
    /\ (last.op = "run" /\ (self.trainloader = 0 \/ self.testloader = 0)) =>
           /\ Len(Tests) = 0
           /\ Len(Executed) <= 1
           /\ \A i \in 1 .. Len(events) : events[i].type # "best"
           /\ self.best_acc = entry.best_acc
           /\ (pc = "idle" /\ Len(Executed) = 1) => last.raised
    /\ (pc = "idle" /\ last.op = "run" /\ last.raised) =>
           /\ self.trainloader = 0 \/ self.testloader = 0
           /\ Len(Executed) >= 1
           /\ LET e == Executed[Len(Executed)].epoch
                  lastev == events[Len(events)]
              IN  /\ lastev.epoch = e
                  /\ lastev.type = IF self.trainloader = 0 THEN "sched" ELSE "train"
                  /\ ~BestWritten(e)
                  /\ self.best_acc = BestBefore(Len(events) + 1)

\* a run left by the exception of the evaluation pass, after the training
\* pass of the epoch
C12_Witness ==
    /\ pc = "idle" /\ last.op = "run" /\ last.raised
    /\ self.testloader = 0
    /\ events[Len(events)].type = "train"

(* C13: right after save_init_params has written, the checkpoint is the    *)
(* file init_weight.pth.tar of dir_prefix, it stores epoch                 *)
(* STORE_PARAM_BEFORE - 1 and accuracy 0, and the trainer's                *)
(* init_params_path is non-empty and is the path of that file.             *)
C13_InitCheckpoint ==
    (Len(events) >= 1 /\ IsInit(events[Len(events)])) =>
        LET p == self.dir_prefix \o "/init_weight.pth.tar"
        IN  /\ p \in DOMAIN files
            /\ files[p].epoch = self.config.STORE_PARAM_BEFORE - 1
            /\ files[p].test_acc = 0
            /\ self.init_params_path # ""
            /\ self.init_params_path = p

\* the snapshot written before the loop, which stores epoch -1
C13_Witness ==
    /\ Len(events) = 1 /\ IsInit(events[1])
    /\ self.config.STORE_PARAM_BEFORE = 0
    /\ files[self.init_params_path].epoch = -1

(* C14: once a run() has stored the init-weights snapshot, a reset leaves  *)
(* the model with exactly the parameters of the snapshot (same keys, same  *)
(* values), best_acc 0 and start epoch PRUNE_START_FROM; the run() after   *)
(* that reset begins at epoch PRUNE_START_FROM with best_acc 0 and writes  *)
(* no init-weights checkpoint.                                             *)
C14_ResetRestoresSnapshot ==
    /\ (pc = "idle" /\ last.op = "reset" /\ self.init_params_path # "") =>
           /\ self.model = files[self.init_params_path].state_dict
           /\ self.best_acc = 0
           /\ self.start_epoch = self.config.PRUNE_START_FROM
    /\ (last.op = "run" /\ entry.prev.op = "reset"
            /\ entry.init_params_path # "") =>
           /\ entry.start_epoch = self.config.PRUNE_START_FROM
           /\ entry.best_acc = 0
           /\ InitWrites = 0
           /\ Len(Executed) >= 1 =>
                  Executed[1].epoch = self.config.PRUNE_START_FROM

\* a completed run from epoch PRUNE_START_FROM = 1 after a reset had put
\* back a snapshot older than the latest training pass
C14_Witness ==
    /\ RunReturned /\ entry.prev.op = "reset"
    /\ entry.init_params_path # ""
    /\ self.config.PRUNE_START_FROM = 1
    /\ Len(Executed) >= 1
    /\ \A k \in DOMAIN self.model :
           files[self.init_params_path].state_dict[k] < trained - 1

\* the place of each kind of event in the loop body of run()
Rank(type) ==
    CASE type = "sched" -> 1
      [] type = "train" -> 2
      [] type = "test" -> 3
      [] type = "best" -> 4
      [] type = "init" -> 5
      [] type = "log" -> 6

\* the parameters after the latest training pass that precedes event i: the
\* number of that pass
ParamsAt(i) ==
    LET later == {j \in i + 1 .. Len(events) : events[j].type = "train"}
    IN  [k \in DOMAIN self.model |-> trained - Cardinality(later)]

(* C15: in every epoch of run() the steps come in the order scheduler,     *)
(* training pass, evaluation pass, best-checkpoint decision, init-weights  *)
(* decision, log (emitted if and only if wandb_log); the best checkpoint   *)
(* of epoch e and the init-weights snapshot taken after epoch              *)
(* STORE_PARAM_BEFORE - 1 hold the parameters and the optimizer as they    *)
(* are after that epoch's training pass, before the next one.              *)
C15_EpochOrder ==
    /\ \A i \in 1 .. Len(events) - 1 :
          LET a == events[i]
              b == events[i + 1]
          IN  \/ /\ i = 1 /\ a.type = "init"
                 /\ self.config.STORE_PARAM_BEFORE = 0
                 /\ b.type = "sched"
              \/ /\ b.epoch = a.epoch
                 /\ Rank(b.type) > Rank(a.type)
                 /\ a.type \in {"sched", "train"} => Rank(b.type) = Rank(a.type) + 1
              \/ /\ b.type = "sched" /\ b.epoch = a.epoch + 1
                 /\ IF self.wandb_log
                    THEN a.type = "log"
                    ELSE a.type \in {"test", "best", "init"}
    /\ Len(events) >= 1 => events[1].type \in {"init", "sched"}
    /\ \A i \in 1 .. Len(events) :
          /\ events[i].type = "log" => self.wandb_log
          /\ events[i].type = "best" =>
                LET ck == files[BestPath(events[i].epoch)]
                IN  /\ ck.state_dict = ParamsAt(i)
                    /\ ck.optimizer =
                           [state |-> 1, param_groups |-> <<"sched", events[i].epoch>>]
          /\ (events[i].type = "init" /\ i > 1) =>
                LET ck == files[self.init_params_path]
                IN  /\ ck.state_dict = ParamsAt(i)
                    /\ ck.optimizer =
                           [state |-> 1, param_groups |-> <<"sched", events[i].epoch>>]

\* a completed, logged run that wrote the best checkpoint and the snapshot
\* of one epoch and then trained a further epoch
C15_Witness ==
    /\ RunReturned /\ self.wandb_log
    /\ \E i \in 1 .. Len(events) - 4 :
          /\ events[i].type = "best"
          /\ events[i + 1].type = "init"
          /\ events[i + 2].type = "log"
          /\ events[i + 3].type = "sched"
          /\ events[i + 4].type = "train"

\* both data iterators yield at least one batch
HasBatches == self.trainloader > 0 /\ self.testloader > 0

\* the epochs begun so far by the current / latest run() are
\* entry.start_epoch, entry.start_epoch + 1, ... in this order, below EPOCHS
EpochsInOrder ==
    \A i \in 1 .. Len(Executed) :
        /\ Executed[i].epoch = entry.start_epoch + i - 1
        /\ Executed[i].epoch < self.config.EPOCHS

\* what a run() that has returned has executed
RanAllEpochs ==
    /\ ~last.raised
    /\ Len(Executed) = max(0, self.config.EPOCHS - entry.start_epoch)
    /\ Len(SelectSeq(events, IsTest)) = Len(Executed)
    /\ entry.start_epoch >= self.config.EPOCHS =>
           /\ Len(Executed) = 0
           /\ \A j \in 1 .. Len(events) : events[j].type # "best"

(* C16: with data iterators that yield at least one batch, run()          *)
(* terminates, and it has then executed exactly max(0, EPOCHS -           *)
(* start_epoch) epochs, start_epoch, start_epoch + 1, ..., EPOCHS - 1 in  *)
(* increasing order, each once; with start_epoch >= EPOCHS it executes no *)
(* epoch and writes no best checkpoint.                                   *)
C16_RunTerminates ==
    /\ [](HasBatches => EpochsInOrder)
    /\ []((HasBatches /\ pc = "idle" /\ last.op = "run") => RanAllEpochs)
    /\ (HasBatches /\ pc # "idle") ~> (pc = "idle" /\ last.op = "run")

\* a run over two epochs that has returned
C16_Witness ==
    /\ RunReturned /\ HasBatches
    /\ entry.start_epoch = 0
    /\ Len(Executed) = 2
    /\ Executed[2].epoch = 1

IsBest(ev) == ev.type = "best"

\* the best-model checkpoints written by the current / latest run(), in order
Bests == SelectSeq(events, IsBest)

(* C17: within one run() the best checkpoints written have strictly       *)
(* increasing stored test accuracy in order of epoch, each stores the     *)
(* epoch it is named after, and the stored accuracy of the most recently  *)
(* written one equals best_acc in every later state of that run.          *)
C17_BestCheckpointsIncrease ==
    (pc # "idle" \/ last.op = "run") =>
        /\ \A i \in 1 .. Len(Bests) :
              /\ BestPath(Bests[i].epoch) \in DOMAIN files
              /\ files[BestPath(Bests[i].epoch)].epoch = Bests[i].epoch
              /\ files[BestPath(Bests[i].epoch)].test_acc = Bests[i].acc
        /\ \A i, j \in 1 .. Len(Bests) :
              i < j =>
                  /\ Bests[i].epoch < Bests[j].epoch
                  /\ files[BestPath(Bests[i].epoch)].test_acc
                         < files[BestPath(Bests[j].epoch)].test_acc
        /\ Len(Bests) >= 1 =>
              self.best_acc = files[BestPath(Bests[Len(Bests)].epoch)].test_acc

\* a run that wrote two best checkpoints and went on after the second
C17_Witness ==
    /\ RunReturned
    /\ Len(Bests) = 2
    /\ files[BestPath(Bests[1].epoch)].test_acc = 50
    /\ files[BestPath(Bests[2].epoch)].test_acc = 100
    /\ self.best_acc = 100

\* a call of load_params or load_init_params
LoadStep ==
    /\ pc = "idle" /\ pc' = "idle"
    /\ last'.op \in {"load_params", "load_init_params"}

\* the current / latest run() resumed, with best_acc = 0, from a checkpoint
\* that load_params had just loaded
ResumedFresh ==
    /\ pc # "idle" \/ last.op = "run"
    /\ entry.prev.op = "load_params"
    /\ entry.best_acc = 0

\* the i-th event is the first evaluation of this run with accuracy > 0
FirstPositive(i) ==
    /\ IsTest(events[i]) /\ events[i].acc > 0
    /\ \A j \in 1 .. i - 1 : IsTest(events[j]) => events[j].acc = 0

(* C18: load_params and load_init_params leave best_acc and the recorded  *)
(* init-params path unchanged; so when a trainer with best_acc = 0        *)
(* resumes from a checkpoint, the first resumed epoch with accuracy > 0   *)
(* writes a best checkpoint, whatever accuracy the checkpoint stores.     *)
C18_LoadKeepsBestAcc ==
    /\ [][LoadStep => /\ self'.best_acc = self.best_acc
                      /\ self'.init_params_path = self.init_params_path]_vars
    /\ [](ResumedFresh =>
            \A i \in 1 .. Len(events) :
                (FirstPositive(i) /\ Decided(i)) => BestWritten(events[i].epoch))

\* resumed after a checkpoint of accuracy 100; the first resumed epoch
\* reached 50 and wrote a best checkpoint
C18_Witness ==
    /\ ResumedFresh
    /\ files[entry.prev.path].test_acc = 100
    /\ Len(Tests) >= 1
    /\ Tests[1].acc = 50
    /\ Tests[1].epoch = files[entry.prev.path].epoch + 1
    /\ BestWritten(Tests[1].epoch)
    /\ files[BestPath(Tests[1].epoch)].test_acc = 50

\* the places an init-weights checkpoint can be written to
InitFiles == {dp \o "/init_weight.pth.tar" : dp \in DirPrefixes}

\* a step that writes the init-weights checkpoint: run() before its loop,
\* or the snapshot decision after an epoch
InitWriteStep ==
    \/ pc = "idle" /\ last'.op = "run" /\ InitWrites' = 1
    \/ pc # "idle" /\ InitWrites' > InitWrites

\* a call of reset
ResetStep == pc = "idle" /\ last'.op = "reset"

(* C19: once the recorded init-params path is non-empty, no step of run,  *)
(* reset, load_params or load_init_params (save_best_params is a step of  *)
(* run) clears or changes it; the init-weights checkpoint is written at   *)
(* most once over the trainer's lifetime: none exists while the path is   *)
(* empty and none is written or rewritten once it is set; every reset     *)
(* made after that ends with start epoch PRUNE_START_FROM.                *)
C19_InitPathNeverCleared ==
    /\ [](self.init_params_path = "" => InitFiles \cap DOMAIN files = {})
    /\ [](self.init_params_path # "" => self.init_params_path \in InitFiles \cap DOMAIN files)
    /\ [][self.init_params_path # "" =>
             /\ self'.init_params_path = self.init_params_path
             /\ ~InitWriteStep
             /\ \A p \in InitFiles \cap DOMAIN files : files'[p] = files[p]]_vars
    /\ [][(ResetStep /\ self.init_params_path # "") =>
             self'.start_epoch = self.config.PRUNE_START_FROM]_vars

\* the snapshot was written, the trainer was reset, and a whole further
\* run configured to store before the first epoch wrote nothing
C19_Witness ==
    /\ RunReturned
    /\ entry.prev.op = "reset"
    /\ entry.init_params_path # ""
    /\ self.init_params_path = entry.init_params_path
    /\ self.config.STORE_PARAM_BEFORE = 0
    /\ entry.start_epoch = self.config.PRUNE_START_FROM
    /\ Len(Executed) >= 1
    /\ InitWrites = 0

====
